---- MODULE Spec2Model ----
(***************************************************************************)
(* Video Merger API (main.py): the merge pipeline behind POST /merge       *)
(* (merge_videos -> process_videos) and POST /merge-with-file              *)
(* (merge_videos_with_file -> process_videos_with_local_narration).        *)
(*                                                                         *)
(* Time is counted in whole seconds.  A remote resource is described by    *)
(* what happens when the program touches it: whether requests.get          *)
(* succeeds (reachable), whether moviepy opens it (decodable) and its      *)
(* natural duration.  Job identifiers (uuid4) are fresh integers.          *)
(* Requests are served one after the other; the file system (TEMP_DIR,     *)
(* OUTPUT_DIR) persists from one request to the next.  The client sends    *)
(* any request first and may then send the same request again.             *)
(***************************************************************************)
EXTENDS Integers, Sequences, FiniteSets, TLC

\* ---- bounds of the model ----
MaxRequests == 1
MaxVideos == 2
MaxClipDur == 2
MaxAudioDur == 3
MaxMaxDuration == 3

\* background_audio.volumex(0.3), in tenths
BG_VOLUME == 3

VARIABLES
    requests,         \* number of requests accepted so far
    next_uuid,        \* number of uuid4 values handed out so far
    TEMP_DIR,         \* job id -> set of file names in that job directory
    OUTPUT_DIR,       \* job id -> "partial" | "complete" (merged_video_<id>.mp4)
    pc,               \* position of the request being served
    entry,            \* "merge" | "merge_with_file" | "none"
    request,          \* the MergeRequest and the resources its locators name
    upload_dir,       \* job_dir of merge_videos_with_file (0: not assigned)
    job_dir,          \* job_dir of process_videos[_with_local_narration]
    video_paths,      \* indices of the downloaded videos, in order
    load_i,           \* position of the "Load video clips" loop
    video_clips,      \* the clips that were opened, in order
    final_video,      \* the timeline: frames and audio tracks
    audio_error,      \* the error the audio try-block caught ("none" if none)
    handles,          \* decoder handles that are open
    encode_result,    \* "none" | "running" | "ok" | "error" (write_videofile)
    exc,              \* the exception being propagated ("none" if none)
    file_like,        \* TRUE while the endpoint holds the output file open
    background_tasks, \* TRUE once cleanup_file has been added
    delivery,         \* "none" | "consumed" | "disconnect"
    response,         \* what the client is answered
    first_run,        \* what the first of two runs of a request produced
    other             \* a request served at the same time: position, job_dir

vars == <<requests, next_uuid, TEMP_DIR, OUTPUT_DIR, pc, entry, request,
          upload_dir, job_dir, video_paths, load_i, video_clips, final_video,
          audio_error, handles, encode_result, exc, file_like,
          background_tasks, delivery, response, first_run, other>>

\* ---- resources named by the locators of a request ----
Unreachable == [reachable |-> FALSE, decodable |-> FALSE, duration |-> 0]
Corrupt == [reachable |-> TRUE, decodable |-> FALSE, duration |-> 0]
Media(d) == [reachable |-> TRUE, decodable |-> TRUE, duration |-> d]

VideoSources == {Unreachable, Corrupt} \cup {Media(d) : d \in 1..MaxClipDur}
AudioSources == {Unreachable, Corrupt} \cup {Media(d) : d \in 1..MaxAudioDur}
UploadedAudio == {Corrupt} \cup {Media(d) : d \in 1..MaxAudioDur}

VideoLists == UNION {[1..n -> VideoSources] : n \in 0..MaxVideos}

\* class MergeRequest; max_duration is taken positive (a valid request)
MergeRequest(vs, bg, narr, md) ==
    [videos |-> vs, background_audio |-> bg, narration |-> narr,
     max_duration |-> md]

NoRequest == MergeRequest(<<>>, Unreachable, Unreachable, 1)

\* ---- file system ----
EmptyDir == [d \in {} |-> {}]

makedirs(fs, d) ==
    [x \in (DOMAIN fs) \cup {d} |-> IF x \in DOMAIN fs THEN fs[x] ELSE {}]

rmtree(fs, d) == [x \in (DOMAIN fs) \ {d} |-> fs[x]]

exists(fs, d) == d \in DOMAIN fs

write_file(fs, d, name) ==
    IF d \in DOMAIN fs THEN [fs EXCEPT ![d] = @ \cup {name}] ELSE fs

remove_file(fs, d, name) ==
    IF d \in DOMAIN fs THEN [fs EXCEPT ![d] = @ \ {name}] ELSE fs

put_output(out, id, st) ==
    [x \in (DOMAIN out) \cup {id} |-> IF x = id THEN st ELSE out[x]]

remove_output(out, id) == [x \in (DOMAIN out) \ {id} |-> out[x]]

\* a variant of uuid4 that hands out the previous identifier again
uuid4_fixed == IF next_uuid = 0 THEN next_uuid + 1 ELSE next_uuid

\* uuid.uuid4(): a value never handed out before
uuid4 == next_uuid + 1

\* ---- clips ----
NoVideo == [frames |-> <<>>, audio |-> <<>>]

\* the frames of one opened clip, second by second
clip_frames(c) == [t \in 1..c.duration |-> <<c.src, t>>]

RECURSIVE concatenate_videoclips(_)
concatenate_videoclips(clips) ==
    IF clips = <<>> THEN <<>>
    ELSE clip_frames(Head(clips)) \o concatenate_videoclips(Tail(clips))

\* clip.subclip(0, t_end) on a sequence of seconds
subclip(s, t_end) == SubSeq(s, 1, t_end)

\* the samples of an audio file of natural duration n
audio_samples(n) == [t \in 1..n |-> t]

\* clip.loop(duration=D): repeat the content to fill D seconds
audio_loop(s, D) == [t \in 1..D |-> s[((t - 1) % Len(s)) + 1]]

\* a variant of background_track that never loops a short track
background_track_no_loop(n, D) ==
    [name |-> "background", natural |-> n,
     samples |-> IF n > D THEN subclip(audio_samples(n), D)
                 ELSE audio_samples(n),
     gain |-> BG_VOLUME]

\* a variant of background_track that never trims a long track
background_track_no_trim(n, D) ==
    [name |-> "background", natural |-> n,
     samples |-> IF n < D THEN audio_loop(audio_samples(n), D)
                 ELSE audio_samples(n),
     gain |-> BG_VOLUME]

\* lines 129-137: the background track against a timeline of D seconds
background_track(n, D) ==
    [name |-> "background", natural |-> n,
     samples |-> IF n < D THEN audio_loop(audio_samples(n), D)
                 ELSE subclip(audio_samples(n), D),
     gain |-> BG_VOLUME]

\* lines 139-142: the narration track against a timeline of D seconds
narration_track(n, D) ==
    [name |-> "narration", natural |-> n,
     samples |-> IF n > D THEN subclip(audio_samples(n), D)
                 ELSE audio_samples(n),
     gain |-> 10]

\* a variant of build_timeline that cuts at the end of the last whole clip
build_timeline_clip_boundary(clips, max_duration) ==
    LET frames == concatenate_videoclips(clips)
    IN  IF Len(frames) <= max_duration THEN frames
        ELSE IF Len(clips) > 1
        THEN concatenate_videoclips(SubSeq(clips, 1, Len(clips) - 1))
        ELSE subclip(frames, max_duration)

\* CompositeAudioClip(clips).duration: the end of the track that ends last
composite_duration(tracks) ==
    LET ends == {Len(tracks[k].samples) : k \in 1..Len(tracks)}
    IN  IF ends = {} THEN 0 ELSE CHOOSE e \in ends : \A f \in ends : f <= e

\* lines 119-125: concatenate, then limit the duration
build_timeline(clips, max_duration) ==
    LET frames == concatenate_videoclips(clips)
    IN  IF Len(frames) > max_duration THEN subclip(frames, max_duration)
        ELSE frames

\* ---- responses ----
\* body: the keys of the JSON body; a streamed file has none
NoResponse ==
    [status |-> 0, media_type |-> "", filename |-> 0, body |-> {},
     detail |-> "none"]

\* StreamingResponse(content=file_like, media_type="video/mp4",
\*     headers={"Content-Disposition": "attachment; filename=..."})
StreamingResponse(id) ==
    [status |-> 200, media_type |-> "video/mp4", filename |-> id,
     body |-> {}, detail |-> "none"]

\* a variant of HTTPException that answers the failure as a success
HTTPException_as_success(e) ==
    [status |-> 200, media_type |-> "application/json", filename |-> 0,
     body |-> {"detail"}, detail |-> e]

\* HTTPException(status_code=500, detail=str(e))
HTTPException(e) ==
    [status |-> 500, media_type |-> "application/json", filename |-> 0,
     body |-> {"detail"}, detail |-> e]

\* nothing recorded of a first run; no second request in flight
NoRun ==
    [job_dir |-> 0, final_video |-> NoVideo, encode_result |-> "none",
     audio_error |-> "none"]

NoOther == [pc |-> "idle", job_dir |-> 0]

Init ==
    /\ requests = 0
    /\ next_uuid = 0
    /\ TEMP_DIR = EmptyDir
    /\ OUTPUT_DIR = EmptyDir
    /\ pc = "idle"
    /\ entry = "none"
    /\ request = NoRequest
    /\ upload_dir = 0
    /\ job_dir = 0
    /\ video_paths = <<>>
    /\ load_i = 0
    /\ video_clips = <<>>
    /\ final_video = NoVideo
    /\ audio_error = "none"
    /\ handles = {}
    /\ encode_result = "none"
    /\ exc = "none"
    /\ file_like = FALSE
    /\ background_tasks = FALSE
    /\ delivery = "none"
    /\ response = NoResponse
    /\ first_run = NoRun
    /\ other = NoOther

\* the requests a client may send: either entry point, any sources
Requests ==
    {[entry |-> e, request |-> MergeRequest(vs, bg, narr, md)] :
        e \in {"merge"}, vs \in VideoLists, bg \in AudioSources,
        narr \in AudioSources, md \in 1..MaxMaxDuration}
    \cup
    {[entry |-> e, request |-> MergeRequest(vs, bg, narr, md)] :
        e \in {"merge_with_file"}, vs \in VideoLists, bg \in AudioSources,
        narr \in UploadedAudio, md \in 1..MaxMaxDuration}

\* a request arrives: the first one is any request, a later one is the
\* client sending the same request again; the locals of the previous
\* request are gone, the directories are as it left them
accept_request ==
    /\ pc \in {"idle", "done"}
    /\ requests < MaxRequests
    /\ requests' = requests + 1
    /\ \E r \in (IF pc = "idle" THEN Requests
                 ELSE {[entry |-> entry, request |-> request]}) :
          /\ entry' = r.entry
          /\ request' = r.request
          /\ pc' = IF r.entry = "merge" THEN "process_videos" ELSE "setup"
    /\ upload_dir' = 0
    /\ job_dir' = 0
    /\ video_paths' = <<>>
    /\ load_i' = 0
    /\ video_clips' = <<>>
    /\ final_video' = NoVideo
    /\ audio_error' = "none"
    /\ handles' = {}
    /\ encode_result' = "none"
    /\ exc' = "none"
    /\ file_like' = FALSE
    /\ background_tasks' = FALSE
    /\ delivery' = "none"
    /\ response' = NoResponse
    /\ UNCHANGED <<next_uuid, TEMP_DIR, OUTPUT_DIR>>
    /\ UNCHANGED <<first_run, other>>

\* the file names used inside a job directory
video_name(i) ==
    <<"video_0.mp4", "video_1.mp4", "video_2.mp4", "video_3.mp4",
      "video_4.mp4", "video_5.mp4">>[i + 1]

\* download_file(url, save_path): the file system after the call; a failed
\* transfer may leave an incomplete file behind (partial)
download_file(fs, d, name, res, partial) ==
    IF res.reachable \/ partial THEN write_file(fs, d, name) ELSE fs

\* download_file returns: the resource is served and open(save_path, 'wb')
\* finds the directory of save_path
downloaded(fs, d, res) == res.reachable /\ exists(fs, d)

\* VideoFileClip(path) / AudioFileClip(path) opens: the file is there and
\* is media
opens(fs, d, name, res) ==
    /\ res.decodable
    /\ exists(fs, d)
    /\ name \in fs[d]

\* merge_videos_with_file, lines 229-249: parse the form, create the
\* endpoint's job directory, save the upload, build the MergeRequest
merge_videos_with_file_setup ==
    /\ pc = "setup"
    /\ \E outcome \in {"ok", "bad_json", "bad_request"} :
          IF outcome = "bad_json"
          THEN /\ exc' = "json.loads"
               /\ pc' = "endpoint_except"
               /\ UNCHANGED <<next_uuid, TEMP_DIR, upload_dir>>
          ELSE /\ upload_dir' = uuid4
               /\ next_uuid' = uuid4
               /\ TEMP_DIR' = write_file(makedirs(TEMP_DIR, uuid4), uuid4,
                                         "narration.mp3")
               /\ exc' = IF outcome = "ok" THEN exc ELSE "MergeRequest"
               /\ pc' = IF outcome = "ok" THEN "process_videos"
                        ELSE "endpoint_except"
    /\ UNCHANGED <<requests, OUTPUT_DIR, entry, request, job_dir, video_paths,
                   load_i, video_clips, final_video, audio_error, handles,
                   encode_result, file_like, background_tasks, delivery,
                   response>>
    /\ UNCHANGED <<first_run, other>>

\* process_videos, lines 86-89 (and 285-288): a job directory of its own
process_videos_makedirs ==
    /\ pc = "process_videos"
    /\ job_dir' = uuid4
    /\ next_uuid' = uuid4
    /\ TEMP_DIR' = makedirs(TEMP_DIR, uuid4)
    /\ pc' = "download_videos"
    /\ UNCHANGED <<requests, OUTPUT_DIR, entry, request, upload_dir,
                   video_paths, load_i, video_clips, final_video, audio_error,
                   handles, encode_result, exc, file_like, background_tasks,
                   delivery, response>>
    /\ UNCHANGED <<first_run, other>>

\* a variant of download_video that goes on to the next video when a
\* download fails
download_video_skip ==
    /\ pc = "download_videos"
    /\ Len(video_paths) < Len(request.videos)
    /\ LET i == Len(video_paths)
           res == request.videos[i + 1]
       IN  /\ \E partial \in BOOLEAN :
                 TEMP_DIR' = download_file(TEMP_DIR, job_dir, video_name(i),
                                           res, partial)
           /\ video_paths' = Append(video_paths, i)
           /\ UNCHANGED <<pc, exc>>
    /\ UNCHANGED <<requests, next_uuid, OUTPUT_DIR, entry, request,
                   upload_dir, job_dir, load_i, video_clips, final_video,
                   audio_error, handles, encode_result, file_like,
                   background_tasks, delivery, response>>
    /\ UNCHANGED <<first_run, other>>

\* lines 92-96: one turn of the download loop; a failure leaves the try block
download_video ==
    /\ pc = "download_videos"
    /\ Len(video_paths) < Len(request.videos)
    /\ LET i == Len(video_paths)
           res == request.videos[i + 1]
       IN  /\ \E partial \in BOOLEAN :
                 TEMP_DIR' = download_file(TEMP_DIR, job_dir, video_name(i),
                                           res, partial)
           /\ IF downloaded(TEMP_DIR, job_dir, res)
              THEN /\ video_paths' = Append(video_paths, i)
                   /\ UNCHANGED <<pc, exc>>
              ELSE /\ exc' = "download"
                   /\ pc' = "except"
                   /\ UNCHANGED video_paths
    /\ UNCHANGED <<requests, next_uuid, OUTPUT_DIR, entry, request,
                   upload_dir, job_dir, load_i, video_clips, final_video,
                   audio_error, handles, encode_result, file_like,
                   background_tasks, delivery, response>>
    /\ UNCHANGED <<first_run, other>>

\* lines 99-100 (and 298-299): the background audio is downloaded outside
\* the audio try block
download_background ==
    /\ pc = "download_videos"
    /\ Len(video_paths) = Len(request.videos)
    /\ LET res == request.background_audio
       IN  /\ \E partial \in BOOLEAN :
                 TEMP_DIR' = download_file(TEMP_DIR, job_dir, "background.mp3",
                                           res, partial)
           /\ IF downloaded(TEMP_DIR, job_dir, res)
              THEN /\ pc' = IF entry = "merge" THEN "download_narration"
                            ELSE "load_clips"
                   /\ UNCHANGED exc
              ELSE /\ exc' = "download"
                   /\ pc' = "except"
    /\ UNCHANGED <<requests, next_uuid, OUTPUT_DIR, entry, request,
                   upload_dir, job_dir, video_paths, load_i, video_clips,
                   final_video, audio_error, handles, encode_result,
                   file_like, background_tasks, delivery, response>>
    /\ UNCHANGED <<first_run, other>>

\* lines 102-103: process_videos only; the upload flow has the file already
download_narration ==
    /\ pc = "download_narration"
    /\ LET res == request.narration
       IN  /\ \E partial \in BOOLEAN :
                 TEMP_DIR' = download_file(TEMP_DIR, job_dir, "narration.mp3",
                                           res, partial)
           /\ IF downloaded(TEMP_DIR, job_dir, res)
              THEN /\ pc' = "load_clips"
                   /\ UNCHANGED exc
              ELSE /\ exc' = "download"
                   /\ pc' = "except"
    /\ UNCHANGED <<requests, next_uuid, OUTPUT_DIR, entry, request,
                   upload_dir, job_dir, video_paths, load_i, video_clips,
                   final_video, audio_error, handles, encode_result,
                   file_like, background_tasks, delivery, response>>
    /\ UNCHANGED <<first_run, other>>

\* a variant of load_video_clip in which a clip that does not open ends
\* the request
load_video_clip_abort ==
    /\ pc = "load_clips"
    /\ load_i < Len(video_paths)
    /\ LET src == video_paths[load_i + 1]
           res == request.videos[src + 1]
       IN  IF opens(TEMP_DIR, job_dir, video_name(src), res)
           THEN /\ video_clips' = Append(video_clips,
                                  [src |-> src, duration |-> res.duration])
                /\ handles' = handles \cup {video_name(src)}
                /\ UNCHANGED <<pc, exc>>
           ELSE /\ exc' = "VideoFileClip"
                /\ pc' = "except"
                /\ UNCHANGED <<video_clips, handles>>
    /\ load_i' = load_i + 1
    /\ UNCHANGED <<requests, next_uuid, TEMP_DIR, OUTPUT_DIR, entry,
                   request, upload_dir, job_dir, video_paths, final_video,
                   audio_error, encode_result, file_like,
                   background_tasks, delivery, response>>
    /\ UNCHANGED <<first_run, other>>

\* a variant of load_video_clip that opens a video as soon as it is
\* downloaded, while other downloads are still to come
load_video_clip_early ==
    /\ pc \in {"download_videos", "load_clips"}
    /\ load_i < Len(video_paths)
    /\ LET src == video_paths[load_i + 1]
           res == request.videos[src + 1]
       IN  IF opens(TEMP_DIR, job_dir, video_name(src), res)
           THEN /\ video_clips' = Append(video_clips,
                                  [src |-> src, duration |-> res.duration])
                /\ handles' = handles \cup {video_name(src)}
           ELSE UNCHANGED <<video_clips, handles>>
    /\ load_i' = load_i + 1
    /\ UNCHANGED <<requests, next_uuid, TEMP_DIR, OUTPUT_DIR, pc, entry,
                   request, upload_dir, job_dir, video_paths, final_video,
                   audio_error, encode_result, exc, file_like,
                   background_tasks, delivery, response>>
    /\ UNCHANGED <<first_run, other>>

\* lines 107-114: open one downloaded video; a clip that does not open is
\* logged and skipped
load_video_clip ==
    /\ pc = "load_clips"
    /\ load_i < Len(video_paths)
    /\ LET src == video_paths[load_i + 1]
           res == request.videos[src + 1]
       IN  IF opens(TEMP_DIR, job_dir, video_name(src), res)
           THEN /\ video_clips' = Append(video_clips,
                                  [src |-> src, duration |-> res.duration])
                /\ handles' = handles \cup {video_name(src)}
           ELSE UNCHANGED <<video_clips, handles>>
    /\ load_i' = load_i + 1
    /\ UNCHANGED <<requests, next_uuid, TEMP_DIR, OUTPUT_DIR, pc, entry,
                   request, upload_dir, job_dir, video_paths, final_video,
                   audio_error, encode_result, exc, file_like,
                   background_tasks, delivery, response>>
    /\ UNCHANGED <<first_run, other>>

\* lines 116-125: no clip is an error; otherwise concatenate and limit
concatenate ==
    /\ pc = "load_clips"
    /\ load_i = Len(video_paths)
    /\ IF video_clips = <<>>
       THEN /\ exc' = "No valid video clips could be loaded"
            /\ pc' = "except"
            /\ UNCHANGED final_video
       ELSE /\ final_video' =
                  [frames |-> build_timeline(video_clips, request.max_duration),
                   audio |-> <<>>]
            /\ pc' = "audio"
            /\ UNCHANGED exc
    /\ UNCHANGED <<requests, next_uuid, TEMP_DIR, OUTPUT_DIR, entry, request,
                   upload_dir, job_dir, video_paths, load_i, video_clips,
                   audio_error, handles, encode_result, file_like,
                   background_tasks, delivery, response>>
    /\ UNCHANGED <<first_run, other>>

\* narration_path: in the job directory of process_videos (line 102), in
\* the directory of the endpoint for an uploaded narration (line 239)
narration_dir == IF entry = "merge" THEN job_dir ELSE upload_dir

\* a variant of process_audio that attaches each track as soon as it is
\* ready, so that the background stays when the narration fails
process_audio_track_by_track ==
    /\ pc = "audio"
    /\ LET D == Len(final_video.frames)
           bg == request.background_audio
           narr == request.narration
       IN  IF ~opens(TEMP_DIR, job_dir, "background.mp3", bg)
           THEN /\ audio_error' = "background_decode"
                /\ UNCHANGED <<handles, final_video>>
           ELSE IF ~opens(TEMP_DIR, narration_dir, "narration.mp3", narr)
           THEN /\ audio_error' = "narration_decode"
                /\ handles' = handles \cup {"background.mp3"}
                /\ final_video' =
                      [final_video EXCEPT !.audio =
                          <<background_track(bg.duration, D)>>]
           ELSE /\ audio_error' = "none"
                /\ handles' = handles \cup {"background.mp3", "narration.mp3"}
                /\ final_video' =
                      [final_video EXCEPT !.audio =
                          <<background_track(bg.duration, D),
                            narration_track(narr.duration, D)>>]
    /\ pc' = "write"
    /\ UNCHANGED <<requests, next_uuid, TEMP_DIR, OUTPUT_DIR, entry, request,
                   upload_dir, job_dir, video_paths, load_i, video_clips,
                   encode_result, exc, file_like, background_tasks, delivery,
                   response>>
    /\ UNCHANGED <<first_run, other>>

\* a variant of process_audio in which an audio error leaves the outer try
process_audio_raises ==
    /\ pc = "audio"
    /\ LET D == Len(final_video.frames)
           bg == request.background_audio
           narr == request.narration
       IN  IF /\ opens(TEMP_DIR, job_dir, "background.mp3", bg)
              /\ opens(TEMP_DIR, narration_dir, "narration.mp3", narr)
           THEN /\ handles' = handles \cup {"background.mp3", "narration.mp3"}
                /\ final_video' =
                      [final_video EXCEPT !.audio =
                          <<background_track(bg.duration, D),
                            narration_track(narr.duration, D)>>]
                /\ pc' = "write"
                /\ UNCHANGED <<audio_error, exc>>
           ELSE /\ audio_error' =
                      IF opens(TEMP_DIR, job_dir, "background.mp3", bg)
                      THEN "narration_decode" ELSE "background_decode"
                /\ exc' = "audio"
                /\ pc' = "except"
                /\ UNCHANGED <<handles, final_video>>
    /\ UNCHANGED <<requests, next_uuid, TEMP_DIR, OUTPUT_DIR, entry, request,
                   upload_dir, job_dir, video_paths, load_i, video_clips,
                   encode_result, file_like, background_tasks, delivery,
                   response>>
    /\ UNCHANGED <<first_run, other>>

\* lines 127-155 (and 325-353): the audio try block.  Any error in it is
\* logged and the video goes on without audio; what was opened stays open.
process_audio ==
    /\ pc = "audio"
    /\ LET D == Len(final_video.frames)
           bg == request.background_audio
           narr == request.narration
       IN  \E fx_ok \in BOOLEAN :
              IF ~opens(TEMP_DIR, job_dir, "background.mp3", bg)
              THEN /\ audio_error' = "background_decode"
                   /\ UNCHANGED <<handles, final_video>>
              ELSE IF ~fx_ok
              THEN /\ audio_error' = "background_process"
                   /\ handles' = handles \cup {"background.mp3"}
                   /\ UNCHANGED final_video
              ELSE IF ~opens(TEMP_DIR, narration_dir, "narration.mp3", narr)
              THEN /\ audio_error' = "narration_decode"
                   /\ handles' = handles \cup {"background.mp3"}
                   /\ UNCHANGED final_video
              ELSE /\ audio_error' = "none"
                   /\ handles' = handles \cup {"background.mp3", "narration.mp3"}
                   /\ final_video' =
                         [final_video EXCEPT !.audio =
                             <<background_track(bg.duration, D),
                               narration_track(narr.duration, D)>>]
    /\ pc' = "write"
    /\ UNCHANGED <<requests, next_uuid, TEMP_DIR, OUTPUT_DIR, entry, request,
                   upload_dir, job_dir, video_paths, load_i, video_clips,
                   encode_result, exc, file_like, background_tasks, delivery,
                   response>>
    /\ UNCHANGED <<first_run, other>>

\* lines 158-169: write_videofile begins; the audio, if any, goes to the
\* temporary audio file inside the job directory first
write_videofile_start ==
    /\ pc = "write"
    /\ \E ok \in BOOLEAN :
          IF ok /\ (final_video.audio = <<>> \/ exists(TEMP_DIR, job_dir))
          THEN /\ encode_result' = "running"
               /\ TEMP_DIR' = IF final_video.audio # <<>>
                              THEN write_file(TEMP_DIR, job_dir, "temp_audio.m4a")
                              ELSE TEMP_DIR
               /\ pc' = "encoding"
               /\ UNCHANGED exc
          ELSE /\ encode_result' = "error"
               /\ exc' = "write_videofile"
               /\ pc' = "except"
               /\ UNCHANGED TEMP_DIR
    /\ UNCHANGED <<requests, next_uuid, OUTPUT_DIR, entry, request,
                   upload_dir, job_dir, video_paths, load_i, video_clips,
                   final_video, audio_error, handles, file_like,
                   background_tasks, delivery, response>>
    /\ UNCHANGED <<first_run, other>>

\* lines 162-169: write_videofile ends: the output file is complete and the
\* temporary audio file removed (remove_temp=True), or the encoder failed
\* with the output file partly written
write_videofile_finish ==
    /\ pc = "encoding"
    /\ \E ok \in BOOLEAN :
          IF ok
          THEN /\ encode_result' = "ok"
               /\ OUTPUT_DIR' = put_output(OUTPUT_DIR, job_dir, "complete")
               /\ TEMP_DIR' = remove_file(TEMP_DIR, job_dir, "temp_audio.m4a")
               /\ pc' = "close"
               /\ UNCHANGED exc
          ELSE /\ encode_result' = "error"
               /\ OUTPUT_DIR' = put_output(OUTPUT_DIR, job_dir, "partial")
               /\ exc' = "write_videofile"
               /\ pc' = "except"
               /\ UNCHANGED TEMP_DIR
    /\ UNCHANGED <<requests, next_uuid, entry, request, upload_dir, job_dir,
                   video_paths, load_i, video_clips, final_video, audio_error,
                   handles, file_like, background_tasks, delivery, response>>
    /\ UNCHANGED <<first_run, other>>

\* lines 171-174: final_video.close() and clip.close() for the video clips
close_clips ==
    /\ pc = "close"
    /\ handles' = handles \ {video_name(video_clips[k].src) :
                                 k \in 1..Len(video_clips)}
    /\ pc' = "rmtree"
    /\ UNCHANGED <<requests, next_uuid, TEMP_DIR, OUTPUT_DIR, entry, request,
                   upload_dir, job_dir, video_paths, load_i, video_clips,
                   final_video, audio_error, encode_result, exc, file_like,
                   background_tasks, delivery, response>>
    /\ UNCHANGED <<first_run, other>>

\* lines 176-179: shutil.rmtree(job_dir); return output_filename.  The call
\* is not guarded: a directory that is not there raises FileNotFoundError
remove_job_dir ==
    /\ pc = "rmtree"
    /\ IF exists(TEMP_DIR, job_dir)
       THEN /\ TEMP_DIR' = rmtree(TEMP_DIR, job_dir)
            /\ pc' = "return"
            /\ UNCHANGED exc
       ELSE /\ exc' = "rmtree"
            /\ pc' = "except"
            /\ UNCHANGED TEMP_DIR
    /\ UNCHANGED <<requests, next_uuid, OUTPUT_DIR, entry, request,
                   upload_dir, job_dir, video_paths, load_i, video_clips,
                   final_video, audio_error, handles, encode_result,
                   file_like, background_tasks, delivery, response>>
    /\ UNCHANGED <<first_run, other>>

\* a variant of process_videos_except that clears the whole temporary root
process_videos_except_rm_root ==
    /\ pc = "except"
    /\ TEMP_DIR' = EmptyDir
    /\ pc' = "endpoint_except"
    /\ UNCHANGED <<requests, next_uuid, OUTPUT_DIR, entry, request,
                   upload_dir, job_dir, video_paths, load_i, video_clips,
                   final_video, audio_error, handles, encode_result, exc,
                   file_like, background_tasks, delivery, response>>
    /\ UNCHANGED <<first_run, other>>

\* a variant of process_videos_except that raises again without cleaning up
process_videos_except_no_cleanup ==
    /\ pc = "except"
    /\ pc' = "endpoint_except"
    /\ UNCHANGED <<requests, next_uuid, TEMP_DIR, OUTPUT_DIR, entry, request,
                   upload_dir, job_dir, video_paths, load_i, video_clips,
                   final_video, audio_error, handles, encode_result, exc,
                   file_like, background_tasks, delivery, response>>
    /\ UNCHANGED <<first_run, other>>

\* lines 181-186 (and 379-384): remove the job directory if there is one,
\* and raise again
process_videos_except ==
    /\ pc = "except"
    /\ TEMP_DIR' = IF job_dir # 0 /\ exists(TEMP_DIR, job_dir)
                   THEN rmtree(TEMP_DIR, job_dir) ELSE TEMP_DIR
    /\ pc' = "endpoint_except"
    /\ UNCHANGED <<requests, next_uuid, OUTPUT_DIR, entry, request,
                   upload_dir, job_dir, video_paths, load_i, video_clips,
                   final_video, audio_error, handles, encode_result, exc,
                   file_like, background_tasks, delivery, response>>
    /\ UNCHANGED <<first_run, other>>

\* lines 193-214 (and 253-276): open the output, add the clean-up task,
\* answer with the stream; open() failing leaves the try block
open_output ==
    /\ pc = "return"
    /\ \E opened \in BOOLEAN :
          IF opened /\ exists(OUTPUT_DIR, job_dir)
          THEN /\ file_like' = TRUE
               /\ background_tasks' = TRUE
               /\ response' = StreamingResponse(job_dir)
               /\ pc' = "stream"
               /\ UNCHANGED exc
          ELSE /\ exc' = "open"
               /\ pc' = "endpoint_except"
               /\ UNCHANGED <<file_like, background_tasks, response>>
    /\ UNCHANGED <<requests, next_uuid, TEMP_DIR, OUTPUT_DIR, entry, request,
                   upload_dir, job_dir, video_paths, load_i, video_clips,
                   final_video, audio_error, handles, encode_result,
                   delivery>>
    /\ UNCHANGED <<first_run, other>>

\* lines 215-217 (and 277-279): every exception becomes a 500
endpoint_except ==
    /\ pc = "endpoint_except"
    /\ response' = HTTPException(exc)
    /\ pc' = "done"
    /\ UNCHANGED <<requests, next_uuid, TEMP_DIR, OUTPUT_DIR, entry, request,
                   upload_dir, job_dir, video_paths, load_i, video_clips,
                   final_video, audio_error, handles, encode_result, exc,
                   file_like, background_tasks, delivery>>
    /\ UNCHANGED <<first_run, other>>

\* the body of the StreamingResponse goes out: the client reads it to the
\* end or goes away; the background tasks run afterwards
send_stream ==
    /\ pc = "stream"
    /\ \E how \in {"consumed", "disconnect"} : delivery' = how
    /\ pc' = "background"
    /\ UNCHANGED <<requests, next_uuid, TEMP_DIR, OUTPUT_DIR, entry, request,
                   upload_dir, job_dir, video_paths, load_i, video_clips,
                   final_video, audio_error, handles, encode_result, exc,
                   file_like, background_tasks, response>>
    /\ UNCHANGED <<first_run, other>>

\* merge_videos.cleanup_file, lines 199-203
cleanup_file ==
    /\ pc = "background"
    /\ entry = "merge"
    /\ background_tasks
    /\ file_like' = FALSE
    /\ OUTPUT_DIR' = IF exists(OUTPUT_DIR, job_dir)
                     THEN remove_output(OUTPUT_DIR, job_dir) ELSE OUTPUT_DIR
    /\ pc' = "done"
    /\ UNCHANGED <<requests, next_uuid, TEMP_DIR, entry, request, upload_dir,
                   job_dir, video_paths, load_i, video_clips, final_video,
                   audio_error, handles, encode_result, exc, background_tasks,
                   delivery, response>>
    /\ UNCHANGED <<first_run, other>>

\* merge_videos_with_file.cleanup_file, lines 259-265
cleanup_file_with_job_dir ==
    /\ pc = "background"
    /\ entry = "merge_with_file"
    /\ background_tasks
    /\ file_like' = FALSE
    /\ OUTPUT_DIR' = IF exists(OUTPUT_DIR, job_dir)
                     THEN remove_output(OUTPUT_DIR, job_dir) ELSE OUTPUT_DIR
    /\ TEMP_DIR' = IF exists(TEMP_DIR, upload_dir)
                   THEN rmtree(TEMP_DIR, upload_dir) ELSE TEMP_DIR
    /\ pc' = "done"
    /\ UNCHANGED <<requests, next_uuid, entry, request, upload_dir, job_dir,
                   video_paths, load_i, video_clips, final_video, audio_error,
                   handles, encode_result, exc, background_tasks, delivery,
                   response>>
    /\ UNCHANGED <<first_run, other>>

Next ==
    \/ accept_request
    \/ merge_videos_with_file_setup
    \/ process_videos_makedirs
    \/ download_video
    \/ download_background
    \/ download_narration
    \/ load_video_clip
    \/ concatenate
    \/ process_audio
    \/ write_videofile_start
    \/ write_videofile_finish
    \/ close_clips
    \/ remove_job_dir
    \/ process_videos_except
    \/ open_output
    \/ endpoint_except
    \/ send_stream
    \/ cleanup_file
    \/ cleanup_file_with_job_dir

Spec == Init /\ [][Next]_vars

\* the steps of a request once it is accepted
Pipeline ==
    \/ merge_videos_with_file_setup
    \/ process_videos_makedirs
    \/ download_video
    \/ download_background
    \/ download_narration
    \/ load_video_clip
    \/ concatenate
    \/ process_audio
    \/ write_videofile_start
    \/ write_videofile_finish
    \/ close_clips
    \/ remove_job_dir
    \/ process_videos_except
    \/ open_output
    \/ endpoint_except
    \/ send_stream
    \/ cleanup_file
    \/ cleanup_file_with_job_dir

\* the first request of a run of the server
accept_first == requests = 0 /\ accept_request

\* ---- the same request run twice ----
\* a first run wrote an output; the client sends the request it sent
\* before, the sources answering as before; what the first run produced is
\* kept for comparison
run_again ==
    /\ pc = "done"
    /\ requests = 1
    /\ encode_result = "ok"
    /\ first_run = NoRun
    /\ first_run' = [job_dir |-> job_dir, final_video |-> final_video,
                     encode_result |-> encode_result,
                     audio_error |-> audio_error]
    /\ requests' = requests + 1
    /\ pc' = IF entry = "merge" THEN "process_videos" ELSE "setup"
    /\ upload_dir' = 0
    /\ job_dir' = 0
    /\ video_paths' = <<>>
    /\ load_i' = 0
    /\ video_clips' = <<>>
    /\ final_video' = NoVideo
    /\ audio_error' = "none"
    /\ handles' = {}
    /\ encode_result' = "none"
    /\ exc' = "none"
    /\ file_like' = FALSE
    /\ background_tasks' = FALSE
    /\ delivery' = "none"
    /\ response' = NoResponse
    /\ UNCHANGED <<next_uuid, TEMP_DIR, OUTPUT_DIR, entry, request, other>>

\* a first request whose sources are all served: the runs that can get as
\* far as an output
accept_served ==
    /\ accept_first
    /\ \A i \in 1..Len(request'.videos) : request'.videos[i].reachable
    /\ request'.background_audio.reachable
    /\ request'.narration.reachable

NextTwice == accept_served \/ run_again \/ Pipeline

SpecTwice == Init /\ [][NextTwice]_vars

\* ---- the inputs of the request being served ----
NoClipsMessage == "No valid video clips could be loaded"

AllVideosReachable ==
    \A i \in 1..Len(request.videos) : request.videos[i].reachable

NarrationFetched == entry = "merge" => request.narration.reachable

UsableVideo ==
    \E i \in 1..Len(request.videos) : request.videos[i].decodable

\* the pipeline was entered (its job directory was created)
PipelineEntered == job_dir # 0

\* the job directories created for the request being served
RequestDirs == {upload_dir, job_dir} \ {0}

Duration == Len(final_video.frames)

\* C1: once a request and the clean-up it scheduled have finished, no job
\* directory created under the temporary root for it still exists, whatever
\* the entry point and the exit path.
C1_NoJobDirRemains ==
    pc = "done" => \A d \in RequestDirs : ~exists(TEMP_DIR, d)

\* C2 (as stated): with every other input fetched and at least one usable
\* video source, a background-audio fetch error or decode error does not
\* abort the request: the encoder is reached with a video-only timeline.
C2_BackgroundErrorNeverAborts ==
    (/\ pc = "done"
     /\ PipelineEntered
     /\ AllVideosReachable
     /\ NarrationFetched
     /\ UsableVideo
     /\ ~request.background_audio.decodable)
    => /\ encode_result # "none"
       /\ final_video.audio = <<>>

\* C2 (amended): a background-audio decode error does not abort the request:
\* the encoder is reached with a video-only timeline and, unless the encoder
\* or the delivery fails, the request is answered with the stream; a
\* background-audio fetch error aborts it before the encoder is reached.
C2_BackgroundDecodeErrorNeverAborts ==
    (/\ pc = "done"
     /\ PipelineEntered
     /\ AllVideosReachable
     /\ NarrationFetched
     /\ UsableVideo)
    => /\ request.background_audio = Corrupt =>
             /\ audio_error = "background_decode"
             /\ encode_result # "none"
             /\ final_video.audio = <<>>
             /\ exc \in {"none", "write_videofile", "open"}
             /\ exc = "none" => response.status = 200
       /\ request.background_audio = Unreachable =>
             /\ encode_result = "none"
             /\ exc = "download"
             /\ response.status = 500

C2_Witness ==
    /\ pc = "done"
    /\ PipelineEntered
    /\ request.background_audio = Corrupt
    /\ request.narration.decodable
    /\ audio_error = "background_decode"
    /\ encode_result = "ok"
    /\ response.status = 200

\* the samples s repeat a track of n seconds seamlessly over D seconds
CoversLooped(s, n, D) ==
    /\ Len(s) = D
    /\ s[1] = 1
    /\ \A t \in 1..(D - 1) : s[t + 1] = IF s[t] = n THEN 1 ELSE s[t] + 1

\* the samples s are the first D seconds of the track
ExactlyFirst(s, D) == Len(s) = D /\ \A t \in 1..D : s[t] = t

DurationPolicy(tr, D) ==
    /\ tr.natural < D => CoversLooped(tr.samples, tr.natural, D)
    /\ tr.natural > D => ExactlyFirst(tr.samples, D)
    /\ tr.natural = D => ExactlyFirst(tr.samples, tr.natural)

\* C3 (as stated): every track in the mix, background and narration alike,
\* is looped to cover [0, D) if shorter than D, cut to [0, D) if longer and
\* used unchanged if equal.
C3_EveryTrackFitted ==
    \A k \in 1..Len(final_video.audio) :
       DurationPolicy(final_video.audio[k], Duration)

\* C3 (amended): the background track is looped to cover [0, D) if shorter
\* than D, cut to [0, D) if longer, unchanged if equal; the narration track
\* is cut to [0, D) if longer and otherwise used unchanged, so that a
\* narration shorter than D covers [0, its duration) only.
C3_BackgroundFittedNarrationTrimmed ==
    \A k \in 1..Len(final_video.audio) :
       LET tr == final_video.audio[k]
       IN  /\ tr.name \in {"background", "narration"}
           /\ tr.name = "background" => DurationPolicy(tr, Duration)
           /\ tr.name = "narration" =>
                 /\ tr.natural > Duration => ExactlyFirst(tr.samples, Duration)
                 /\ tr.natural <= Duration =>
                       ExactlyFirst(tr.samples, tr.natural)

C3_Witness ==
    /\ Len(final_video.audio) = 2
    /\ final_video.audio[1].name = "background"
    /\ final_video.audio[1].natural > 1
    /\ final_video.audio[1].natural < Duration
    /\ final_video.audio[2].name = "narration"
    /\ final_video.audio[2].natural < Duration
    /\ encode_result = "ok"

\* C4: when a request ends in a fatal failure, no output file of that
\* request remains in the output directory.
C4_NoOutputAfterFailure ==
    (pc = "done" /\ response.status = 500) => ~exists(OUTPUT_DIR, job_dir)

\* C5: after a successful encode the output file is deleted in every
\* continuation of delivery, so none is left when the request has finished.
C5_OutputDeletedAfterDelivery ==
    (pc = "done" /\ encode_result = "ok") => ~exists(OUTPUT_DIR, job_dir)

\* C6: at the moment the job directory is removed, no video or audio
\* handle opened by the job is still open.
C6_HandlesReleasedBeforeRemoval ==
    [][(exists(TEMP_DIR, job_dir) /\ ~exists(TEMP_DIR', job_dir))
          => handles = {}]_vars

RECURSIVE SurvivingDuration(_, _)
SurvivingDuration(vs, i) ==
    IF i = 0 THEN 0
    ELSE SurvivingDuration(vs, i - 1)
         + (IF vs[i].decodable THEN vs[i].duration ELSE 0)

Min(a, b) == IF a < b THEN a ELSE b

\* second t of the in-order concatenation of the decodable sources: the
\* source it comes from (counted from 0) and the second within that source
ConcatenationAt(vs, t) ==
    LET i == CHOOSE j \in 1..Len(vs) :
                 /\ vs[j].decodable
                 /\ SurvivingDuration(vs, j - 1) < t
                 /\ t <= SurvivingDuration(vs, j)
    IN  <<i - 1, t - SurvivingDuration(vs, i - 1)>>

\* C8: the timeline is the prefix of the in-order concatenation of the
\* surviving clips, of duration min(sum of their durations, max_duration).
C8_TimelineIsPrefix ==
    final_video # NoVideo =>
       /\ Duration = Min(SurvivingDuration(request.videos, Len(request.videos)),
                         request.max_duration)
       /\ \A t \in 1..Duration :
             final_video.frames[t] = ConcatenationAt(request.videos, t)

C8_Witness ==
    /\ final_video # NoVideo
    /\ Len(video_clips) = 2
    /\ SurvivingDuration(request.videos, Len(request.videos))
          > request.max_duration
    /\ video_clips[1].duration < request.max_duration
    /\ encode_result = "ok"

\* C9: a POST /merge answered with status 200 carries a JSON body with the
\* keys output_file and message.
C9_MergeAnswersJson ==
    (entry = "merge" /\ response.status = 200)
    => /\ response.media_type = "application/json"
       /\ {"output_file", "message"} \subseteq response.body

\* a fatal failure follows from the inputs alone
FatalInput ==
    \/ ~AllVideosReachable
    \/ ~request.background_audio.reachable
    \/ ~NarrationFetched
    \/ ~UsableVideo

\* C10: a request is answered as a success only if the encoder finished a
\* complete output file for it; every fatal failure is answered with a 500
\* that carries the failure message.
C10_SuccessOnlyAfterEncode ==
    /\ response.status = 200 =>
          /\ encode_result = "ok"
          /\ exc = "none"
          /\ pc = "stream" =>
                exists(OUTPUT_DIR, job_dir) /\ OUTPUT_DIR[job_dir] = "complete"
    /\ pc = "done" =>
          /\ response.status \in {200, 500}
          /\ exc # "none" => response = HTTPException(exc)
          /\ encode_result = "error" => exc = "write_videofile"
          /\ FatalInput => response.status = 500 /\ exc # "none"

C10_Witness ==
    /\ pc = "done"
    /\ encode_result = "error"
    /\ exists(OUTPUT_DIR, job_dir)
    /\ response = HTTPException("write_videofile")

\* ---- a second request in flight at the same time ----
\* The other request is a POST /merge served by the same code; of its state
\* only the position and the job identifier are kept, of its steps only
\* what they do to TEMP_DIR and OUTPUT_DIR.
MainLocals ==
    <<requests, pc, entry, request, upload_dir, job_dir, video_paths, load_i,
      video_clips, final_video, audio_error, handles, encode_result, exc,
      file_like, background_tasks, delivery, response, first_run>>

\* process_videos, lines 86-89
other_makedirs ==
    /\ other.pc = "idle"
    /\ other' = [pc |-> "download", job_dir |-> uuid4]
    /\ next_uuid' = uuid4
    /\ TEMP_DIR' = makedirs(TEMP_DIR, uuid4)
    /\ UNCHANGED <<MainLocals, OUTPUT_DIR>>

\* process_videos, lines 91-103: the downloads, into its own job directory
other_download ==
    /\ other.pc = "download"
    /\ \E ok \in BOOLEAN :
          /\ TEMP_DIR' = write_file(TEMP_DIR, other.job_dir, "video_0.mp4")
          /\ other' = [other EXCEPT !.pc = IF ok THEN "write" ELSE "except"]
    /\ UNCHANGED <<MainLocals, next_uuid, OUTPUT_DIR>>

\* process_videos, lines 157-169: merged_video_<job_id>.mp4
other_write_videofile ==
    /\ other.pc = "write"
    /\ OUTPUT_DIR' = put_output(OUTPUT_DIR, other.job_dir, "complete")
    /\ other' = [other EXCEPT !.pc = "rmtree"]
    /\ UNCHANGED <<MainLocals, next_uuid, TEMP_DIR>>

\* process_videos, lines 176-179
other_rmtree ==
    /\ other.pc = "rmtree"
    /\ TEMP_DIR' = rmtree(TEMP_DIR, other.job_dir)
    /\ other' = [other EXCEPT !.pc = "stream"]
    /\ UNCHANGED <<MainLocals, next_uuid, OUTPUT_DIR>>

\* process_videos, lines 181-186, and the 500 of lines 215-217
other_except ==
    /\ other.pc = "except"
    /\ TEMP_DIR' = IF exists(TEMP_DIR, other.job_dir)
                   THEN rmtree(TEMP_DIR, other.job_dir) ELSE TEMP_DIR
    /\ other' = [other EXCEPT !.pc = "failed"]
    /\ UNCHANGED <<MainLocals, next_uuid, OUTPUT_DIR>>

\* merge_videos.cleanup_file, lines 199-203, after the stream
other_cleanup_file ==
    /\ other.pc = "stream"
    /\ OUTPUT_DIR' = IF exists(OUTPUT_DIR, other.job_dir)
                     THEN remove_output(OUTPUT_DIR, other.job_dir)
                     ELSE OUTPUT_DIR
    /\ other' = [other EXCEPT !.pc = "done"]
    /\ UNCHANGED <<MainLocals, next_uuid, TEMP_DIR>>

\* a first request with one-second media: which files a step touches does
\* not depend on the durations
accept_short ==
    /\ accept_first
    /\ \A i \in 1..Len(request'.videos) : request'.videos[i].duration <= 1
    /\ request'.background_audio.duration <= 1
    /\ request'.narration.duration <= 1
    /\ request'.max_duration = 1

NextConcurrent ==
    \/ accept_short
    \/ Pipeline
    \/ other_makedirs
    \/ other_download
    \/ other_write_videofile
    \/ other_rmtree
    \/ other_except
    \/ other_cleanup_file

SpecConcurrent == Init /\ [][NextConcurrent]_vars

\* the job directory of the other request
OtherDirs == {other.job_dir} \ {0}

\* what is at a path: nothing, or its content
At(fs, d) == IF d \in DOMAIN fs THEN {fs[d]} ELSE {}

\* the directories and output files named by the identifiers ds are as
\* they were
Untouched(ds) ==
    \A d \in ds : /\ At(TEMP_DIR', d) = At(TEMP_DIR, d)
                  /\ At(OUTPUT_DIR', d) = At(OUTPUT_DIR, d)

\* C12: in every interleaving of two requests, the two never share a job
\* directory or an output path, and no step of one creates, writes or
\* removes a file of the other.
C12_RequestsIsolated ==
    [][/\ RequestDirs' \cap OtherDirs' = {}
       /\ other' = other => Untouched(OtherDirs)
       /\ MainLocals' = MainLocals => Untouched(RequestDirs)]_vars

C12_Witness ==
    /\ pc = "encoding"
    /\ other.pc = "rmtree"
    /\ exists(TEMP_DIR, job_dir)
    /\ exists(TEMP_DIR, other.job_dir)
    /\ exists(OUTPUT_DIR, other.job_dir)
    /\ other.job_dir > job_dir

\* both runs got through the encoder, with the same outcome of the
\* processing of the background track
TwoOutputs ==
    /\ first_run.encode_result = "ok"
    /\ encode_result = "ok"
    /\ (first_run.audio_error = "background_process")
          = (audio_error = "background_process")

AllFetched ==
    /\ Len(video_paths) = Len(request.videos)
    /\ exists(TEMP_DIR, job_dir)
    /\ \A i \in 1..Len(request.videos) :
          video_name(i - 1) \in TEMP_DIR[job_dir] /\ request.videos[i].reachable
    /\ "background.mp3" \in TEMP_DIR[job_dir]
    /\ request.background_audio.reachable
    /\ exists(TEMP_DIR, narration_dir)
    /\ "narration.mp3" \in TEMP_DIR[narration_dir]
    /\ request.narration.reachable

\* C13: within a request no video file is opened for decoding until every
\* fetch of the request, videos, background audio and narration, is done.
C13_DecodeAfterAllFetches ==
    [][load_i' # load_i /\ load_i' # 0 => AllFetched]_vars

C13_Witness ==
    /\ load_i = 2
    /\ Len(request.videos) = 2
    /\ Len(video_clips) = 1
    /\ entry = "merge"
    /\ pc = "load_clips"

\* the clips a request yields: its decodable sources, in the order given
RECURSIVE Survivors(_, _)
Survivors(vs, i) ==
    IF i = 0 THEN <<>>
    ELSE Survivors(vs, i - 1)
         \o (IF vs[i].decodable
             THEN <<[src |-> i - 1, duration |-> vs[i].duration]>>
             ELSE <<>>)

AllSourcesReachable ==
    /\ AllVideosReachable
    /\ request.background_audio.reachable
    /\ NarrationFetched

\* C14: with every source fetched and at least one clip that decodes, a
\* clip that does not decode is skipped without ending the request: the
\* clips concatenated are exactly the decodable ones in the order of the
\* request, and the encoder is reached.
C14_UndecodableClipSkipped ==
    (PipelineEntered /\ AllSourcesReachable /\ UsableVideo) =>
       /\ exc # NoClipsMessage
       /\ load_i = Len(request.videos) =>
             video_clips = Survivors(request.videos, Len(request.videos))
       /\ final_video # NoVideo =>
             /\ \A t \in 1..Duration :
                   final_video.frames[t] = ConcatenationAt(request.videos, t)
             /\ SurvivingDuration(request.videos, Len(request.videos))
                   <= request.max_duration
                => {final_video.frames[t][1] : t \in 1..Duration}
                      = {i - 1 : i \in {j \in 1..Len(request.videos) :
                                           request.videos[j].decodable}}
       /\ pc = "done" => encode_result # "none"

C14_Witness ==
    /\ pc = "done"
    /\ Len(request.videos) = 2
    /\ request.videos[1] = Corrupt
    /\ request.videos[2].decodable
    /\ Len(video_clips) = 1
    /\ video_clips[1].src = 1
    /\ encode_result = "ok"

\* C15: a failed download of any one video ends the whole request, also
\* when other videos can be downloaded: no clip is decoded, the encoder is
\* never invoked, no output file is written and the answer is an error.
C15_VideoDownloadFailureFatal ==
    (PipelineEntered /\ ~AllVideosReachable) =>
       /\ load_i = 0
       /\ video_clips = <<>>
       /\ handles = {}
       /\ final_video = NoVideo
       /\ encode_result = "none"
       /\ ~exists(OUTPUT_DIR, job_dir)
       /\ response.status # 200
       /\ pc = "done" => exc = "download" /\ response = HTTPException("download")

C15_Witness ==
    /\ pc = "done"
    /\ Len(request.videos) = 2
    /\ request.videos[1].decodable
    /\ request.videos[2] = Unreachable
    /\ Len(video_paths) = 1
    /\ exc = "download"

\* C17: whenever the timeline carries audio, the mixed track lasts exactly
\* as long as the timeline, whatever the durations of the two tracks.
C17_MixHasTimelineDuration ==
    final_video.audio # <<>> =>
       composite_duration(final_video.audio) = Duration

C17_Witness ==
    /\ Len(final_video.audio) = 2
    /\ final_video.audio[1].natural > Duration
    /\ final_video.audio[2].natural < Duration
    /\ encode_result = "ok"

\* C19: the audio of the output is all or nothing: both tracks mixed, or no
\* audio at all; when one track fails, the other is dropped too.
C19_AudioAllOrNothing ==
    /\ Len(final_video.audio) \in {0, 2}
    /\ final_video.audio # <<>> =>
          /\ final_video.audio[1].name = "background"
          /\ final_video.audio[2].name = "narration"
          /\ audio_error = "none"
          /\ request.background_audio.decodable
          /\ request.narration.decodable
    /\ audio_error # "none" => final_video.audio = <<>>

C19_Witness ==
    /\ audio_error = "narration_decode"
    /\ request.background_audio.decodable
    /\ "background.mp3" \in handles
    /\ final_video.audio = <<>>
    /\ encode_result = "ok"

\* ---- shutdown of a process that shares the temporary root ----
\* lines 21-30: the shutdown half of lifespan removes the temporary root with
\* everything under it; every server process started from this module runs
\* it against the same ./temp, so it can fall between any two steps of a
\* request another process is serving
lifespan_shutdown ==
    /\ TEMP_DIR # EmptyDir
    /\ TEMP_DIR' = EmptyDir
    /\ UNCHANGED <<requests, next_uuid, OUTPUT_DIR, pc, entry, request,
                   upload_dir, job_dir, video_paths, load_i, video_clips,
                   final_video, audio_error, handles, encode_result, exc,
                   file_like, background_tasks, delivery, response,
                   first_run, other>>

NextShutdown ==
    \/ accept_first
    \/ Pipeline
    \/ lifespan_shutdown

SpecShutdown == Init /\ [][NextShutdown]_vars

\* C16: removing a job directory that is already absent raises no error at
\* any of the places that remove one, so the outcome of the request is the
\* one it had before the removal.
C16_ReleaseIdempotent ==
    /\ exc # "rmtree"
    /\ (pc = "done" /\ encode_result = "ok" /\ file_like)
          => response.status = 200

\* C18: a request owns one job directory, and every file it writes under
\* the temporary root (videos, background, narration, the encoder's
\* temporary audio) is inside it.
C18_OneJobDirectory ==
    /\ Cardinality(RequestDirs) <= 1
    /\ \A d \in RequestDirs :
          (exists(TEMP_DIR, d) /\ TEMP_DIR[d] # {})
             => (job_dir = 0 \/ d = job_dir)
====
